---- MODULE Spec2Model ----
(***************************************************************************)
(* Model of the streaming protocol of crypto-tracker-simulator.            *)
(*                                                                         *)
(* Producer side: CryptoWebSocketServer (backend), its connections, their  *)
(* stream timers and the dispatch of client commands.                      *)
(*                                                                         *)
(* Consumer side: WebSocketManager (mobile/src/core/networking), the       *)
(* connection lifecycle, the reconnect back-off, command sending and the   *)
(* routing of incoming messages.  A socket is an object of the platform:   *)
(* the manager creates it, attaches its four handlers to it and never      *)
(* detaches them, so every socket ever created keeps delivering its        *)
(* events to the one manager.                                              *)
(***************************************************************************)
EXTENDS Integers, Sequences, FiniteSets, TLC

(***************************************************************************)
(* Bounds of the model.                                                    *)
(***************************************************************************)
MaxConnects == 6      \* connect() calls (by the user or by the timer) in a run
MaxUserCalls == 2     \* connect()/disconnect() calls made by the application
MaxStreamConnects == 2 \* connect() calls in a run that delivers messages
MaxStreamUserCalls == 1 \* application calls in a run that delivers messages
MaxSendConnects == 2  \* connect() calls in a run that sends commands
MaxMessages == 2      \* binary messages delivered in a run
MaxTime == 1          \* the local clock runs over 0..MaxTime
MaxSent == 1          \* commands transmitted in a run
MaxConns == 1         \* connections the producer accepts in a run
MaxCommands == 2      \* text or binary messages the producer receives in a run
MaxTicks == 1         \* firings of stream timers in a run
MaxSource == 3        \* records of a price list given to the filter
MaxSymbols == 2       \* entries of a symbol list given to the filter
MaxDecodes == 4       \* buffers decoded between two resets of the adapter
MaxDecodeTime == 2    \* the time a decode takes is in 0..MaxDecodeTime
MaxWindow == 3        \* samples of a window given to calculateMetrics
MaxRecords == 2       \* records of a list given to the codec
MaxFrameId == 1       \* the frame counter when the codec is given a list
MaxPairEvents == 6    \* events the producer handles in a run with several clients

(***************************************************************************)
(* Program constants.                                                      *)
(***************************************************************************)
reconnectDelay == 2000
maxReconnectDelay == 30000
MAX_SAMPLES == 1000
NORMAL_CLOSURE == 1000

\* Close codes a close event may carry: normal closure and, for every code
\* the handler treats alike (anything but 1000), abnormal closure.
CloseCodes == {1000, 1006}
\* The code of the close event that follows a failed connection.
ABNORMAL_CLOSURE == 1006

ConnectionStatus ==
  {"DISCONNECTED", "CONNECTING", "CONNECTED", "RECONNECTING", "ERROR"}

CommandTypes == {"FILTER_COINS", "CHANGE_FREQUENCY", "GET_METRICS"}

Sockets == 1..MaxConnects
NULL == 0

\* Life of a platform socket.  "closing": close() was called on an open
\* socket; "aborting": close() was called before the socket opened.
SocketStates == {"none", "connecting", "open", "closing", "aborting", "closed"}

\* WebSocket.readyState as the manager reads it.
readyState(st) ==
  CASE st = "connecting" -> "CONNECTING"
    [] st = "open" -> "OPEN"
    [] st \in {"closing", "aborting"} -> "CLOSING"
    [] OTHER -> "CLOSED"

Min(a, b) == IF a < b THEN a ELSE b

VARIABLES
  status,                 \* connectionStatusAtom
  ws,                     \* this.ws: a socket or NULL
  reconnectTimeout,       \* this.reconnectTimeout: a timer handle or NULL
  currentReconnectDelay,  \* this.currentReconnectDelay
  reconnectAttempts,      \* this.reconnectAttempts
  connectionStartTime,    \* this.connectionStartTime
  latencySamples,         \* this.latencySamples
  messagesReceived,       \* this.messagesReceived
  bytesReceived,          \* this.bytesReceived
  allCryptos,             \* allCryptosAtom: the snapshot presented
  totalDecoded,           \* FlatBuffersAdapter.totalDecoded (mobile)
  totalDecodeTime,        \* FlatBuffersAdapter.totalDecodeTime (mobile)
  minDecodeTime,          \* FlatBuffersAdapter.minDecodeTime (mobile)
  maxDecodeTime,          \* FlatBuffersAdapter.maxDecodeTime (mobile)
  sockets,                \* platform: state of every socket created
  timers,                 \* platform: pending setTimeout timers
  nextTimer,              \* platform: next timer handle
  sent,                   \* platform: commands written to a socket
  now,                    \* platform: Date.now()
  connectCalls,           \* history: connect() calls so far
  userCalls,              \* history: application calls so far
  delivered,              \* history: binary messages delivered so far
  scheduled,              \* history: delays armed since the last open event
  everOpened,             \* history: some socket has opened
  localDisconnect,        \* history: disconnect() called, no connect() since
  lastOp                  \* history: the operation that produced this state

\* The producer: CryptoWebSocketServer (backend/src/server.ts).
VARIABLES
  clients,                \* this.clients: the sockets registered
  client,                 \* the ClientConnection object made for every socket
  updateIntervals,        \* this.updateIntervals: a timer handle or NULL
  totalMessagesSent,      \* this.totalMessagesSent
  totalBytesSent,         \* this.totalBytesSent
  frameCounter,           \* FlatBuffersAdapter.frameCounter (backend)
  conns,                  \* platform: state of every accepted socket
  intervals,              \* platform: live setInterval timers
  nextInterval,           \* platform: next interval handle
  wire,                   \* platform: what was written to every socket
  running,                \* platform: the producer process is alive
  received,               \* history: messages received so far
  fired,                  \* history: firings of stream timers so far
  lastMessage             \* history: the message this state was produced by

\* The filter, taken alone: its arguments and its results.
VARIABLES
  filterIn,               \* the arguments the filter is applied to
  filterOut,              \* what it returned
  codecIn,                \* the list, frame counter and clock given to encode
  codecBuf,               \* the buffer between encode and decode
  codecOut,               \* what decode returned
  metricsIn,              \* a latency window
  metricsOut              \* what calculateMetrics returned for it

cvars == <<status, ws, reconnectTimeout, currentReconnectDelay,
           reconnectAttempts, connectionStartTime, latencySamples,
           messagesReceived, bytesReceived, allCryptos, totalDecoded,
           totalDecodeTime, minDecodeTime, maxDecodeTime, sockets, timers,
           nextTimer, sent, now, connectCalls, userCalls,
           delivered, scheduled, everOpened, localDisconnect, lastOp>>

svars == <<clients, client, updateIntervals, totalMessagesSent,
           totalBytesSent, frameCounter, conns, intervals, nextInterval,
           wire, running, received, fired, lastMessage>>

fvars == <<filterIn, filterOut, codecIn, codecBuf, codecOut, metricsIn,
           metricsOut>>

vars == <<cvars, svars, fvars>>

(***************************************************************************)
(* The manager and the platform objects it touches, as one record, so      *)
(* that a method is a function from the state before to the state after.   *)
(***************************************************************************)
World ==
  [status |-> status, ws |-> ws, reconnectTimeout |-> reconnectTimeout,
   currentReconnectDelay |-> currentReconnectDelay,
   reconnectAttempts |-> reconnectAttempts,
   connectionStartTime |-> connectionStartTime,
   latencySamples |-> latencySamples,
   messagesReceived |-> messagesReceived, bytesReceived |-> bytesReceived,
   allCryptos |-> allCryptos, totalDecoded |-> totalDecoded,
   totalDecodeTime |-> totalDecodeTime, minDecodeTime |-> minDecodeTime,
   maxDecodeTime |-> maxDecodeTime,
   sockets |-> sockets, timers |-> timers, nextTimer |-> nextTimer,
   sent |-> sent, scheduled |-> scheduled]

Becomes(w) ==
  /\ status' = w.status
  /\ ws' = w.ws
  /\ reconnectTimeout' = w.reconnectTimeout
  /\ currentReconnectDelay' = w.currentReconnectDelay
  /\ reconnectAttempts' = w.reconnectAttempts
  /\ connectionStartTime' = w.connectionStartTime
  /\ latencySamples' = w.latencySamples
  /\ messagesReceived' = w.messagesReceived
  /\ bytesReceived' = w.bytesReceived
  /\ allCryptos' = w.allCryptos
  /\ totalDecoded' = w.totalDecoded
  /\ totalDecodeTime' = w.totalDecodeTime
  /\ minDecodeTime' = w.minDecodeTime
  /\ maxDecodeTime' = w.maxDecodeTime
  /\ sockets' = w.sockets
  /\ timers' = w.timers
  /\ nextTimer' = w.nextTimer
  /\ sent' = w.sent
  /\ scheduled' = w.scheduled
  /\ UNCHANGED <<svars, fvars>>

\* clearTimeout(h): a handle that already fired, or NULL, clears nothing.
clearTimeout(w, h) ==
  [w EXCEPT !.timers = {t \in w.timers : t.id # h}]

\* setTimeout(() => this.connect(this.url), delay), returning the handle.
setTimeout(w, delay) ==
  [w EXCEPT !.timers = w.timers \cup {[id |-> w.nextTimer, delay |-> delay]},
            !.nextTimer = w.nextTimer + 1,
            !.reconnectTimeout = w.nextTimer,
            !.scheduled = Append(w.scheduled, delay)]

\* The back-off step without its cap.
NextDelay_uncapped(d) == d * 2

\* The exponential back-off step of scheduleReconnect.
NextDelay(d) == Min(d * 2, maxReconnectDelay)

\* A scheduleReconnect whose back-off grows by the base delay.
scheduleReconnect_addsBase(w) ==
  LET w1 == IF w.reconnectTimeout # NULL
            THEN clearTimeout(w, w.reconnectTimeout) ELSE w
      w2 == [w1 EXCEPT !.reconnectAttempts = w1.reconnectAttempts + 1,
                       !.status = "RECONNECTING"]
      w3 == setTimeout(w2, w2.currentReconnectDelay)
  IN [w3 EXCEPT !.currentReconnectDelay =
                   Min(w3.currentReconnectDelay + reconnectDelay,
                       maxReconnectDelay)]

\* A scheduleReconnect that arms a timer without cancelling the one it
\* armed before.
scheduleReconnect_keepsOld(w) ==
  LET w2 == [w EXCEPT !.reconnectAttempts = w.reconnectAttempts + 1,
                      !.status = "RECONNECTING"]
      w3 == setTimeout(w2, w2.currentReconnectDelay)
  IN [w3 EXCEPT !.currentReconnectDelay = NextDelay(w3.currentReconnectDelay)]

\* WebSocketManager.scheduleReconnect
scheduleReconnect(w) ==
  LET w1 == IF w.reconnectTimeout # NULL
            THEN clearTimeout(w, w.reconnectTimeout) ELSE w
      w2 == [w1 EXCEPT !.reconnectAttempts = w1.reconnectAttempts + 1,
                       !.status = "RECONNECTING"]
      w3 == setTimeout(w2, w2.currentReconnectDelay)
  IN [w3 EXCEPT !.currentReconnectDelay = NextDelay(w3.currentReconnectDelay)]

\* A connect whose catch block reports the error and gives up.
connect_noRetry(w, s, throws) ==
  LET w1 == [w EXCEPT !.status = "CONNECTING"]
  IN IF throws
     THEN [w1 EXCEPT !.status = "ERROR"]
     ELSE [w1 EXCEPT !.ws = s, !.sockets[s] = "connecting"]

\* WebSocketManager.connect; throws: new WebSocket(url) raised; s: the
\* socket the platform creates otherwise.
connect(w, s, throws) ==
  LET w1 == [w EXCEPT !.status = "CONNECTING"]
  IN IF throws
     THEN scheduleReconnect([w1 EXCEPT !.status = "ERROR"])
     ELSE [w1 EXCEPT !.ws = s, !.sockets[s] = "connecting"]

\* An open handler that leaves the back-off where the failures put it.
onopen_keepsDelay(w, t) ==
  [w EXCEPT !.status = "CONNECTED",
            !.connectionStartTime = t,
            !.reconnectAttempts = 0]

\* ws.onopen
onopen(w, t) ==
  [w EXCEPT !.status = "CONNECTED",
            !.connectionStartTime = t,
            !.currentReconnectDelay = reconnectDelay,
            !.reconnectAttempts = 0]

\* ws.onerror
onerror(w) == [w EXCEPT !.status = "ERROR"]

\* ws.onclose
onclose(w, code) ==
  LET w1 == [w EXCEPT !.status = "DISCONNECTED"]
  IN IF code # NORMAL_CLOSURE THEN scheduleReconnect(w1) ELSE w1

\* WebSocket.close(code, reason) of the platform: no effect on a socket
\* that is already closing or closed.
close(w, s) ==
  CASE w.sockets[s] = "open" -> [w EXCEPT !.sockets[s] = "closing"]
    [] w.sockets[s] = "connecting" -> [w EXCEPT !.sockets[s] = "aborting"]
    [] OTHER -> w

\* A disconnect that closes the socket but leaves the reconnect timer armed.
disconnect_keepsTimer(w) ==
  LET w2 == IF w.ws # NULL
            THEN [close(w, w.ws) EXCEPT !.ws = NULL]
            ELSE w
  IN [w2 EXCEPT !.status = "DISCONNECTED"]

\* WebSocketManager.disconnect
disconnect(w) ==
  LET w1 == IF w.reconnectTimeout # NULL
            THEN [clearTimeout(w, w.reconnectTimeout)
                    EXCEPT !.reconnectTimeout = NULL]
            ELSE w
      w2 == IF w1.ws # NULL
            THEN [close(w1, w1.ws) EXCEPT !.ws = NULL]
            ELSE w1
  IN [w2 EXCEPT !.status = "DISCONNECTED"]

\* WebSocketManager.isConnected
isConnected(w) ==
  w.ws # NULL /\ readyState(w.sockets[w.ws]) = "OPEN"

\* WebSocketManager.sendCommand
sendCommand(w, type) ==
  IF ~isConnected(w)
  THEN w
  ELSE [w EXCEPT !.sent = Append(w.sent, type)]

(***************************************************************************)
(* Incoming messages.  A binary message is a buffer; FlatBuffersAdapter    *)
(* .decode either returns the view model read from it or throws.  The      *)
(* buffer is described by what decode finds in it.                         *)
(***************************************************************************)
\* A buffer's length follows from what it holds: a frame without records
\* or a frame with one record.  The producer stamps its frames with its
\* own clock, here one tick ahead of where the local clock starts, so the
\* latency of a frame may be negative.  `ok` tells whether the FlatBuffers
\* reader gets through the buffer without throwing; of a buffer it does
\* not get through, the manager reads nothing but the length.
Bitcoin ==
  [symbol |-> "BTC", name |-> "Bitcoin", price |-> 1, priceChange24h |-> 0,
   marketCap |-> 0, volume24h |-> 0, high24h |-> 1, low24h |-> 1,
   lastUpdated |-> 1]

Buffers ==
  { [ok |-> TRUE, frameId |-> 0, timestamp |-> 1, totalCryptos |-> 0,
     cryptos |-> <<>>, length |-> 32],
    [ok |-> TRUE, frameId |-> 0, timestamp |-> 1, totalCryptos |-> 1,
     cryptos |-> <<Bitcoin>>, length |-> 96] }
  \cup [ok : {FALSE}, frameId : {0}, timestamp : {0}, totalCryptos : {0},
        cryptos : {<<>>}, length : {4, 96}]

DecodeFailed == [failed |-> TRUE]

\* A view model that loses the sign of the price change.
cryptoToViewModel_dropsSign(fbCrypto) ==
  [fbCrypto EXCEPT !.priceChange24h = IF @ < 0 THEN 0 - @ ELSE @]

\* FlatBuffersAdapter.cryptoToViewModel: every field is read with its
\* accessor and kept as a number or a string.  A 32-bit float and an
\* unsigned 64-bit integer below 2^53 are numbers of JavaScript as they
\* are, so reading changes no value.
cryptoToViewModel(fbCrypto) ==
  [symbol |-> fbCrypto.symbol,
   name |-> fbCrypto.name,
   price |-> fbCrypto.price,
   priceChange24h |-> fbCrypto.priceChange24h,
   marketCap |-> fbCrypto.marketCap,
   volume24h |-> fbCrypto.volume24h,
   high24h |-> fbCrypto.high24h,
   low24h |-> fbCrypto.low24h,
   lastUpdated |-> fbCrypto.lastUpdated]

\* FlatBuffersAdapter.toViewModel: the records of the vector in their
\* order, and the three fields of the root table.
toViewModel(worldState) ==
  [failed |-> FALSE,
   cryptos |-> [i \in 1..Len(worldState.cryptos) |->
                  cryptoToViewModel(worldState.cryptos[i])],
   frameId |-> worldState.frameId,
   timestamp |-> worldState.timestamp,
   totalCryptos |-> worldState.totalCryptos]

\* FlatBuffersAdapter.decode (mobile): the view model, or the thrown error.
\* Nothing looks at the length of the buffer before the reader is given it.
decode(buffer) == IF buffer.ok THEN toViewModel(buffer) ELSE DecodeFailed

\* A time: Infinity, or a finite number of time units.
Infinity == [finite |-> FALSE, value |-> 0]
Finite(t) == [finite |-> TRUE, value |-> t]

\* What performance.now() - startTime gives in the runs of the manager:
\* the clock of performance.now() is not followed there.
NoDecodeTime == 0

\* An updateMetrics that forgets to count.
updateMetrics_keepsCount(w, decodeTime) ==
  [w EXCEPT !.totalDecodeTime = @ + decodeTime,
            !.minDecodeTime = IF ~@.finite \/ decodeTime < @.value
                              THEN Finite(decodeTime) ELSE @,
            !.maxDecodeTime = IF decodeTime > @ THEN decodeTime ELSE @]

\* FlatBuffersAdapter.updateMetrics (mobile): the count, the total, and
\* Math.min and Math.max of the extreme so far and the time.
updateMetrics(w, decodeTime) ==
  [w EXCEPT !.totalDecodeTime = @ + decodeTime,
            !.totalDecoded = @ + 1,
            !.minDecodeTime = IF ~@.finite \/ decodeTime < @.value
                              THEN Finite(decodeTime) ELSE @,
            !.maxDecodeTime = IF decodeTime > @ THEN decodeTime ELSE @]

\* A quotient of two numbers, kept as the two.
Quotient(n, d) == [n |-> n, d |-> d]

\* FlatBuffersAdapter.getMetrics (mobile)
FlatBuffersAdapter_getMetrics(w) ==
  [averageDecodeTime |-> IF w.totalDecoded > 0
                         THEN Quotient(w.totalDecodeTime, w.totalDecoded)
                         ELSE Quotient(0, 1),
   minDecodeTime |-> IF w.minDecodeTime = Infinity
                     THEN 0 ELSE w.minDecodeTime.value,
   maxDecodeTime |-> w.maxDecodeTime,
   totalDecoded |-> w.totalDecoded]

\* FlatBuffersAdapter.resetMetrics (mobile)
FlatBuffersAdapter_resetMetrics(w) ==
  [w EXCEPT !.totalDecodeTime = 0,
            !.totalDecoded = 0,
            !.minDecodeTime = Infinity,
            !.maxDecodeTime = 0]

\* FlatBuffersAdapter.decode (mobile), what it leaves in the adapter: the
\* metrics are updated after the view model is built, inside the try.
decodeMetrics(w, buffer, decodeTime) ==
  IF decode(buffer).failed THEN w ELSE updateMetrics(w, decodeTime)

\* WebSocketManager.updateCryptoState
updateCryptoState(w, worldState) ==
  [w EXCEPT !.allCryptos = worldState.cryptos]

\* A tracker that, once the window is full, drops the sample it was given.
trackPerformance_dropsNewest(w, byteSize, latency) ==
  LET pushed == Append(w.latencySamples, latency)
  IN [w EXCEPT !.messagesReceived = w.messagesReceived + 1,
               !.bytesReceived = w.bytesReceived + byteSize,
               !.latencySamples = IF Len(pushed) > MAX_SAMPLES
                                  THEN w.latencySamples ELSE pushed]

\* WebSocketManager.trackPerformance
trackPerformance(w, byteSize, latency) ==
  LET pushed == Append(w.latencySamples, latency)
  IN [w EXCEPT !.messagesReceived = w.messagesReceived + 1,
               !.bytesReceived = w.bytesReceived + byteSize,
               !.latencySamples = IF Len(pushed) > MAX_SAMPLES
                                  THEN Tail(pushed) ELSE pushed]

\* A handler that counts the message before it decodes it.
handleBinaryMessage_countsFirst(w, buffer, receiveTime) ==
  LET worldState == decode(buffer)
      counted == [w EXCEPT !.messagesReceived = w.messagesReceived + 1,
                           !.bytesReceived = w.bytesReceived + buffer.length]
  IN IF worldState.failed
     THEN counted
     ELSE [updateCryptoState(decodeMetrics(counted, buffer, NoDecodeTime),
                         worldState)
             EXCEPT !.latencySamples =
                      Append(w.latencySamples,
                             receiveTime - worldState.timestamp)]

\* WebSocketManager.handleBinaryMessage
handleBinaryMessage(w, buffer, receiveTime) ==
  LET worldState == decode(buffer)
  IN IF worldState.failed
     THEN w
     ELSE trackPerformance(
            updateCryptoState(decodeMetrics(w, buffer, NoDecodeTime),
                              worldState),
            buffer.length, receiveTime - worldState.timestamp)

\* WebSocketManager.handleTextMessage: every branch only logs.
handleTextMessage(w) == w

\* [...samples].sort((a, b) => a - b)
sort(samples) == SortSeq(samples, LAMBDA a, b : a < b)

\* A percentile by the nearest rank counted from one.
percentile_nearestRank(sorted, hundredths) ==
  LET rank == (Len(sorted) * hundredths + 99) \div 100
  IN IF rank >= 1 /\ rank <= Len(sorted) THEN sorted[rank] ELSE 0

\* calculateMetrics, sorted[Math.floor(count * p)] || 0 for p given in
\* hundredths: indexes count from zero, and an index that holds nothing
\* reads as undefined, which `||` turns into 0.  For the counts of a
\* window and p of 0.5, 0.95 and 0.99 the product of the code, rounded as
\* a double, has the floor of the exact product.
percentile(sorted, hundredths) ==
  LET index == (Len(sorted) * hundredths) \div 100
  IN IF index < Len(sorted) THEN sorted[index + 1] ELSE 0

\* Math.max of no argument: a number that is not finite, and negative.
MinusInfinity == [finite |-> FALSE, value |-> -1]

\* samples.reduce((a, b) => a + b, 0)
RECURSIVE reduce(_)
reduce(samples) ==
  IF samples = <<>> THEN 0
  ELSE reduce(SubSeq(samples, 1, Len(samples) - 1)) + samples[Len(samples)]

NoMetrics ==
  [calculated |-> FALSE, latencyP50 |-> 0, latencyP95 |-> 0,
   latencyP99 |-> 0, averageLatency |-> Quotient(0, 1),
   maxLatency |-> Finite(0), minLatency |-> 0,
   messagesReceived |-> 0, bytesReceived |-> 0, connectionUptime |-> 0]

\* calculateMetrics that reads the extremes at the ends of the window as
\* the samples arrived.
calculateMetrics_unsorted(w, time) ==
  LET samples == w.latencySamples
      count == Len(samples)
  IN [calculated |-> TRUE,
      latencyP50 |-> percentile(sort(samples), 50),
      latencyP95 |-> percentile(sort(samples), 95),
      latencyP99 |-> percentile(sort(samples), 99),
      averageLatency |-> IF count > 0 THEN Quotient(reduce(samples), count)
                         ELSE Quotient(0, 1),
      maxLatency |-> IF count = 0 THEN MinusInfinity
                     ELSE Finite(samples[count]),
      minLatency |-> IF count = 0 THEN 0 ELSE samples[1],
      messagesReceived |-> w.messagesReceived,
      bytesReceived |-> w.bytesReceived,
      connectionUptime |-> time - w.connectionStartTime]

\* WebSocketManager.calculateMetrics at the time `time`.  The average is
\* the quotient sum/count, and 0 for no sample.  Math.min of no argument
\* is Infinity, which is reported as 0; Math.max of no argument is
\* reported as it is.  The quotients per second are not followed; what
\* they are quotients of is: the counters and the uptime.
calculateMetrics(w, time) ==
  LET sorted == sort(w.latencySamples)
      count == Len(sorted)
      sum == reduce(w.latencySamples)
      max == IF count = 0 THEN MinusInfinity ELSE Finite(sorted[count])
  IN [calculated |-> TRUE,
      latencyP50 |-> percentile(sorted, 50),
      latencyP95 |-> percentile(sorted, 95),
      latencyP99 |-> percentile(sorted, 99),
      averageLatency |-> IF count > 0 THEN Quotient(sum, count)
                         ELSE Quotient(0, 1),
      maxLatency |-> max,
      minLatency |-> IF count = 0 THEN 0 ELSE sorted[1],
      messagesReceived |-> w.messagesReceived,
      bytesReceived |-> w.bytesReceived,
      connectionUptime |-> time - w.connectionStartTime]

(***************************************************************************)
(* Producer side: CryptoWebSocketServer.  An accepted socket is an object  *)
(* of the platform; the server keeps one ClientConnection object and one   *)
(* stream timer for it.  A method is a function from the state before to   *)
(* the state after; `thrown` is set when the method ends by an exception.  *)
(***************************************************************************)
DEFAULT_FREQUENCY == 10

Conns == 1..MaxConns

\* Life of an accepted socket.  "closing": no longer OPEN, its error and
\* close events not yet emitted.
ConnStates == {"open", "closing", "closed"}

\* The value of a `symbols` field as JavaScript holds it: an array of
\* strings, or no array at all (the field is missing or null).
JsArray(items) == [defined |-> TRUE, items |-> items]
NoArray == [defined |-> FALSE, items |-> <<>>]

\* CryptoDataService.CRYPTOS, in the insertion order of cryptoCache.
CRYPTOS == <<"BTC", "ETH", "SOL">>

\* What Date.now() returns in the producer: its clock is not followed, it
\* reads the same at every call.
ServerNow == 1

\* A CryptoData.  Numbers that are not integers are counted in units of
\* 1/256, so that 16777217 stands for the price 65536.00390625.
CryptoData(symbol, price) ==
  [symbol |-> symbol, name |-> symbol, price |-> price,
   priceChange24h |-> 0, marketCap |-> 0, volume24h |-> 0,
   high24h |-> price, low24h |-> price, lastUpdated |-> ServerNow]

\* CryptoDataService.getCurrentPrices: one record for every cached coin.
getCurrentPrices ==
  [i \in 1..Len(CRYPTOS) |-> CryptoData(CRYPTOS[i], i)]

\* Array.prototype.includes
includes(symbols, x) == \E i \in 1..Len(symbols) : symbols[i] = x

\* A filter for which the empty list selects nothing.
getFilteredPrices_emptySelectsNone(prices, symbols) ==
  SelectSeq(prices, LAMBDA crypto : includes(symbols, crypto.symbol))

\* CryptoDataService.getFilteredPrices, over the current prices.
getFilteredPrices(prices, symbols) ==
  IF Len(symbols) = 0
  THEN prices
  ELSE SelectSeq(prices, LAMBDA crypto : includes(symbols, crypto.symbol))

\* The list a stream tick encodes (startDataStream, the timer callback).
selectCryptos(prices, symbols) ==
  IF Len(symbols) > 0 THEN getFilteredPrices(prices, symbols) ELSE prices

\* A `float` field of the schema holds 24 significant bits: the number is
\* rounded to the nearest one that fits, ties to the even one.
RECURSIVE Float32Ulp(_, _)
Float32Ulp(n, ulp) ==
  IF n \div ulp < 16777216 THEN ulp ELSE Float32Ulp(n, 2 * ulp)

ToFloat32(x) ==
  LET n == IF x < 0 THEN 0 - x ELSE x
      ulp == Float32Ulp(n, 1)
      q == n \div ulp
      r == n % ulp
      m == IF 2 * r < ulp \/ (2 * r = ulp /\ q % 2 = 0) THEN q ELSE q + 1
  IN IF x < 0 THEN 0 - (m * ulp) ELSE m * ulp

\* FlatBuffersAdapter.encode, the record of one crypto: the strings, the
\* six float fields, and lastUpdated as an unsigned 64-bit integer.
createCrypto(crypto) ==
  [symbol |-> crypto.symbol,
   name |-> crypto.name,
   price |-> ToFloat32(crypto.price),
   priceChange24h |-> ToFloat32(crypto.priceChange24h),
   marketCap |-> ToFloat32(crypto.marketCap),
   volume24h |-> ToFloat32(crypto.volume24h),
   high24h |-> ToFloat32(crypto.high24h),
   low24h |-> ToFloat32(crypto.low24h),
   lastUpdated |-> crypto.lastUpdated]

\* An encoder that writes the size of the source as the record count.
encode_countsSource(counter, time, cryptos) ==
  [ok |-> TRUE, frameId |-> counter, timestamp |-> time,
   totalCryptos |-> Len(CRYPTOS),
   cryptos |-> [i \in 1..Len(cryptos) |-> createCrypto(cryptos[i])],
   length |-> 32 + 64 * Len(cryptos)]

\* FlatBuffersAdapter.encode (backend): the frame built from a list, with
\* the byte length of its buffer.  The reader gets through what the
\* builder wrote.
encode(counter, time, cryptos) ==
  [ok |-> TRUE, frameId |-> counter, timestamp |-> time,
   totalCryptos |-> Len(cryptos),
   cryptos |-> [i \in 1..Len(cryptos) |-> createCrypto(cryptos[i])],
   length |-> 32 + 64 * Len(cryptos)]

NoFrame ==
  [ok |-> FALSE, frameId |-> -1, timestamp |-> 0, totalCryptos |-> 0,
   cryptos |-> <<>>, length |-> 0]

\* A ServerResponse; NoResponse stands for "nothing written yet".
NoResponse ==
  [type |-> "NONE", symbols |-> NoArray, frequency |-> 0, message |-> "",
   code |-> "", activeConnections |-> 0, totalMessagesSent |-> 0]

NoClient ==
  [symbols |-> JsArray(<<>>), frequency |-> DEFAULT_FREQUENCY,
   messagesSent |-> 0]

\* What a socket has carried: the number of text responses and the last
\* one, the set of the last FILTER_APPLIED, the number of binary frames
\* and the last one.
NoTraffic ==
  [responses |-> 0, last |-> NoResponse, acked |-> FALSE,
   applied |-> NoArray, frames |-> 0, frame |-> NoFrame]

\* The sockets accepted so far, numbered in the order of their arrival.
Accepted == DOMAIN conns

Server ==
  [clients |-> clients, client |-> client,
   updateIntervals |-> updateIntervals,
   totalMessagesSent |-> totalMessagesSent,
   totalBytesSent |-> totalBytesSent, frameCounter |-> frameCounter,
   conns |-> conns, intervals |-> intervals, nextInterval |-> nextInterval,
   wire |-> wire, thrown |-> FALSE]

ServerBecomes(w) ==
  /\ clients' = w.clients
  /\ client' = w.client
  /\ updateIntervals' = w.updateIntervals
  /\ totalMessagesSent' = w.totalMessagesSent
  /\ totalBytesSent' = w.totalBytesSent
  /\ frameCounter' = w.frameCounter
  /\ conns' = w.conns
  /\ intervals' = w.intervals
  /\ nextInterval' = w.nextInterval
  /\ wire' = w.wire
  /\ UNCHANGED <<cvars, fvars>>

\* 1000 / frequency, the period in milliseconds, kept in microseconds.
intervalMs(frequency) == (1000 * 1000) \div frequency

\* setInterval(callback, ms) of Node.js: a delay below 1 ms is replaced by
\* 1 ms (so is one above 2^31 - 1 ms, which 1000 / frequency never is for
\* a frequency of 1 or more).  The period is kept in microseconds.
setInterval(w, c, ms) ==
  [w EXCEPT !.intervals = @ \cup
              {[id |-> w.nextInterval, conn |-> c,
                period |-> IF ms < 1000 THEN 1000 ELSE ms]},
            !.nextInterval = @ + 1]

\* clearInterval(h)
clearInterval(w, h) ==
  [w EXCEPT !.intervals = {i \in @ : i.id # h}]

\* CryptoWebSocketServer.sendResponse: written only to an OPEN socket.
sendResponse(w, c, response) ==
  IF w.conns[c] # "open"
  THEN w
  ELSE [w EXCEPT !.wire[c].responses = @ + 1,
                 !.wire[c].last = response,
                 !.wire[c].acked = @ \/ response.type = "FILTER_APPLIED",
                 !.wire[c].applied = IF response.type = "FILTER_APPLIED"
                                     THEN response.symbols ELSE @]

\* CryptoWebSocketServer.sendError
sendError(w, c, message) ==
  sendResponse(w, c, [NoResponse EXCEPT !.type = "ERROR",
                                        !.message = message])

\* CryptoWebSocketServer.startDataStream: arms the timer and records it.
startDataStream(w, c) ==
  LET w1 == setInterval(w, c, intervalMs(w.client[c].frequency))
  IN [w1 EXCEPT !.updateIntervals[c] = w.nextInterval]

\* A tick that numbers the frames of each connection on their own.
streamTick_perClientIds(w, i) ==
  LET c == i.conn
      symbols == w.client[c].symbols
  IN IF w.conns[c] # "open"
     THEN clearInterval(w, i.id)
     ELSE IF ~symbols.defined
     THEN [w EXCEPT !.thrown = TRUE]
     ELSE LET cryptos == selectCryptos(getCurrentPrices, symbols.items)
              binaryData == encode(w.client[c].messagesSent, ServerNow, cryptos)
          IN [w EXCEPT !.frameCounter = @ + 1,
                       !.wire[c].frames = @ + 1,
                       !.wire[c].frame = binaryData,
                       !.client[c].messagesSent = @ + 1,
                       !.totalMessagesSent = @ + 1,
                       !.totalBytesSent = @ + binaryData.length]

\* The callback startDataStream gives to setInterval.  It reads the
\* client object it closed over; nothing in it catches an exception.
streamTick(w, i) ==
  LET c == i.conn
      symbols == w.client[c].symbols
  IN IF w.conns[c] # "open"
     THEN clearInterval(w, i.id)
     ELSE IF ~symbols.defined
     THEN [w EXCEPT !.thrown = TRUE]
     ELSE LET cryptos == selectCryptos(getCurrentPrices, symbols.items)
              binaryData == encode(w.frameCounter, ServerNow, cryptos)
          IN [w EXCEPT !.frameCounter = @ + 1,
                       !.wire[c].frames = @ + 1,
                       !.wire[c].frame = binaryData,
                       !.client[c].messagesSent = @ + 1,
                       !.totalMessagesSent = @ + 1,
                       !.totalBytesSent = @ + binaryData.length]

\* CryptoWebSocketServer.handleConnection
handleConnection(w, c) ==
  LET w1 == [w EXCEPT !.client[c] = NoClient, !.clients = @ \cup {c}]
      w2 == startDataStream(w1, c)
  IN sendResponse(w2, c,
       [NoResponse EXCEPT !.type = "METRICS",
                          !.activeConnections = Cardinality(w2.clients),
                          !.totalMessagesSent = w2.totalMessagesSent])

\* A handleDisconnect that forgets the client and leaves its timer armed.
handleDisconnect_keepsTimer(w, c) == [w EXCEPT !.clients = @ \ {c}]

\* CryptoWebSocketServer.handleDisconnect
handleDisconnect(w, c) ==
  LET w1 == IF w.updateIntervals[c] # NULL
            THEN [clearInterval(w, w.updateIntervals[c])
                    EXCEPT !.updateIntervals[c] = NULL]
            ELSE w
  IN [w1 EXCEPT !.clients = @ \ {c}]

(***************************************************************************)
(* Messages a client may send.  `text` tells what the bytes are: a JSON    *)
(* object, text that starts with "{" and does not parse, or anything       *)
(* else.  `payload` tells whether the object has a payload, a null one,    *)
(* or none.                                                                *)
(***************************************************************************)
\* The frequencies ChangeFrequencyCommand allows in its payload.
Frequencies == {10, 20, 30}
\* The frequencies clients send: an allowed one, and one that is not.
SentFrequencies == {20, 2000}

Command(type, payload, symbols, frequency) ==
  [text |-> "json", type |-> type, payload |-> payload,
   symbols |-> symbols, frequency |-> frequency]

NoData == Command("", "undefined", NoArray, 0)

\* The last event was not a message.
NoMessage == [conn |-> NULL, data |-> NoData]

Messages ==
  {Command("FILTER_COINS", "object", s, 0) :
     s \in {JsArray(<<>>), JsArray(<<"ETH">>), NoArray}}
  \cup {Command("FILTER_COINS", "null", NoArray, 0)}
  \cup {Command("CHANGE_FREQUENCY", "object", NoArray, f) :
          f \in SentFrequencies}
  \cup {Command("GET_METRICS", "object", NoArray, 0),
        Command("GET_METRICS", "undefined", NoArray, 0),
        Command("PING", "object", NoArray, 0),
        [NoData EXCEPT !.text = "badjson"],
        [NoData EXCEPT !.text = "binary"]}

\* The type guards of types/commands.
isClientCommand(data) == data.type # "" /\ data.payload # "undefined"
isFilterCoinsCommand(cmd) == cmd.type = "FILTER_COINS"
isChangeFrequencyCommand(cmd) == cmd.type = "CHANGE_FREQUENCY"
isGetMetricsCommand(cmd) == cmd.type = "GET_METRICS"

\* A FILTER_COINS branch that acknowledges the set and does not store it.
filterCoins_ackOnly(w, c, command) ==
  IF command.payload = "null"
  THEN [w EXCEPT !.thrown = TRUE]
  ELSE LET w2 == sendResponse(w, c,
                   [NoResponse EXCEPT !.type = "FILTER_APPLIED",
                                      !.symbols = command.symbols])
       IN IF command.symbols.defined THEN w2 ELSE [w2 EXCEPT !.thrown = TRUE]

\* handleCommand, the FILTER_COINS branch: store, acknowledge, log.  The
\* log line joins the array, which throws when there is none.
filterCoins(w, c, command) ==
  IF command.payload = "null"
  THEN [w EXCEPT !.thrown = TRUE]
  ELSE LET w1 == [w EXCEPT !.client[c].symbols = command.symbols]
           w2 == sendResponse(w1, c,
                   [NoResponse EXCEPT !.type = "FILTER_APPLIED",
                                      !.symbols = command.symbols])
       IN IF command.symbols.defined THEN w2 ELSE [w2 EXCEPT !.thrown = TRUE]

\* A CHANGE_FREQUENCY branch that stops the stream and does not restart it.
changeFrequency_stopsStream(w, c, command) ==
  IF command.payload = "null"
  THEN [w EXCEPT !.thrown = TRUE]
  ELSE LET w1 == [w EXCEPT !.client[c].frequency = command.frequency]
           w2 == IF w1.updateIntervals[c] # NULL
                 THEN clearInterval(w1, w1.updateIntervals[c])
                 ELSE w1
       IN sendResponse(w2, c,
            [NoResponse EXCEPT !.type = "FREQUENCY_CHANGED",
                               !.frequency = command.frequency])

\* A CHANGE_FREQUENCY branch that starts the new timer and keeps the old.
changeFrequency_keepsTimer(w, c, command) ==
  IF command.payload = "null"
  THEN [w EXCEPT !.thrown = TRUE]
  ELSE LET w1 == [w EXCEPT !.client[c].frequency = command.frequency]
           w3 == startDataStream(w1, c)
       IN sendResponse(w3, c,
            [NoResponse EXCEPT !.type = "FREQUENCY_CHANGED",
                               !.frequency = command.frequency])

\* handleCommand, the CHANGE_FREQUENCY branch: store, restart, acknowledge.
changeFrequency(w, c, command) ==
  IF command.payload = "null"
  THEN [w EXCEPT !.thrown = TRUE]
  ELSE LET w1 == [w EXCEPT !.client[c].frequency = command.frequency]
           w2 == IF w1.updateIntervals[c] # NULL
                 THEN clearInterval(w1, w1.updateIntervals[c])
                 ELSE w1
           w3 == startDataStream(w2, c)
       IN sendResponse(w3, c,
            [NoResponse EXCEPT !.type = "FREQUENCY_CHANGED",
                               !.frequency = command.frequency])

\* A METRICS response that reports the frames of the asking client only.
getMetrics_ownCount(w, c) ==
  sendResponse(w, c,
    [NoResponse EXCEPT !.type = "METRICS",
                       !.activeConnections = Cardinality(w.clients),
                       !.totalMessagesSent = w.client[c].messagesSent])

\* handleCommand, the GET_METRICS branch.
getMetrics(w, c) ==
  sendResponse(w, c,
    [NoResponse EXCEPT !.type = "METRICS",
                       !.activeConnections = Cardinality(w.clients),
                       !.totalMessagesSent = w.totalMessagesSent])

\* A handleCommand that looks the client up by position, not by socket: the
\* command of any socket lands on the client that registered first.
handleCommand_firstClient(w, c, command) ==
  IF c \notin w.clients
  THEN w
  ELSE LET first == CHOOSE d \in w.clients : \A e \in w.clients : d <= e
       IN CASE isFilterCoinsCommand(command) ->
                 [filterCoins(w, c, command)
                    EXCEPT !.client[c] = w.client[c],
                           !.client[first].symbols = command.symbols]
            [] isChangeFrequencyCommand(command) ->
                 changeFrequency(w, first, command)
            [] isGetMetricsCommand(command) -> getMetrics(w, c)
            [] OTHER -> w

\* CryptoWebSocketServer.handleCommand: no branch for any other type.
handleCommand(w, c, command) ==
  IF c \notin w.clients
  THEN w
  ELSE CASE isFilterCoinsCommand(command) -> filterCoins(w, c, command)
         [] isChangeFrequencyCommand(command) -> changeFrequency(w, c, command)
         [] isGetMetricsCommand(command) -> getMetrics(w, c)
         [] OTHER -> w

\* CryptoWebSocketServer.handleMessage: whatever is thrown inside the try
\* block is answered with "Failed to parse message".
handleMessage(w, c, data) ==
  CASE data.text = "binary" -> w
    [] data.text = "badjson" -> sendError(w, c, "Failed to parse message")
    [] OTHER ->
         IF isClientCommand(data)
         THEN LET w1 == handleCommand(w, c, data)
              IN IF w1.thrown
                 THEN sendError([w1 EXCEPT !.thrown = FALSE], c,
                                "Failed to parse message")
                 ELSE w1
         ELSE sendError(w, c, "Invalid command format")

(***************************************************************************)
(* The filter taken alone: price lists and symbol lists to apply it to.    *)
(***************************************************************************)
SeqsUpTo(S, n) == UNION {[1..k -> S] : k \in 0..n}

FilterInputs ==
  [prices : SeqsUpTo([symbol : {"BTC", "ETH"}, price : {1, 2}], MaxSource),
   symbols : SeqsUpTo({"BTC", "ETH", "XRP"}, MaxSymbols)]

NoFilterOutput == [applied |-> FALSE, filtered |-> <<>>, selected |-> <<>>]

(***************************************************************************)
(* The codec taken alone: lists of records to encode, and what becomes of  *)
(* the buffer on its way to decode.                                        *)
(***************************************************************************)
\* Records with a price that a float holds and one it does not, and with a
\* price change that is negative or zero.
CodecRecords ==
  {[CryptoData(symbol, price) EXCEPT !.priceChange24h = change] :
     symbol \in {"BTC", "ETH"}, price \in {1, 16777217}, change \in {-1, 0}}

CodecInputs ==
  [cryptos : SeqsUpTo(CodecRecords, MaxRecords), counter : 0..MaxFrameId,
   time : 0..MaxTime]

\* Latency windows: short ones of any content, and the hundred samples
\* 10, 20, ..., 1000 in the order of their arrival and in the opposite one.
Hundred == [i \in 1..100 |-> 10 * i]

MetricsInputs ==
  SeqsUpTo({-1, 0, 3, 7}, MaxWindow)
  \cup {Hundred, [i \in 1..100 |-> Hundred[101 - i]]}

NoBuffer == [sent |-> FALSE, cut |-> FALSE, buffer |-> NoFrame]

NoSnapshot == [decoded |-> FALSE, worldState |-> DecodeFailed]

\* The lengths a buffer is cut to: nothing, less than a header, and the
\* frame without its last record.
CutLengths(buffer) ==
  {0, 4} \cup {n \in {buffer.length - 64} : n >= 32}

\* The first n bytes of a buffer, n less than its length, as the reader
\* takes them.  The reader checks no bound: it throws, or it reads what
\* is not there as absent and returns the defaults of the schema for it.
Prefix(buffer, n, throws) ==
  IF throws
  THEN [NoFrame EXCEPT !.frameId = 0, !.length = n]
  ELSE IF n < 32
  THEN [ok |-> TRUE, frameId |-> 0, timestamp |-> 0, totalCryptos |-> 0,
        cryptos |-> <<>>, length |-> n]
  ELSE [buffer EXCEPT !.cryptos = SubSeq(@, 1, (n - 32) \div 64),
                      !.length = n]

(***************************************************************************)
(* The state after construction: no socket, no timer, the back-off at its  *)
(* base value.                                                             *)
(***************************************************************************)
NoOp == [op |-> "init", sock |-> NULL, code |-> 0]

InitManager ==
  /\ status = "DISCONNECTED"
  /\ ws = NULL
  /\ reconnectTimeout = NULL
  /\ currentReconnectDelay = reconnectDelay
  /\ reconnectAttempts = 0
  /\ connectionStartTime = 0
  /\ latencySamples = <<>>
  /\ messagesReceived = 0
  /\ bytesReceived = 0
  /\ allCryptos = <<>>
  /\ totalDecoded = 0
  /\ totalDecodeTime = 0
  /\ minDecodeTime = Infinity
  /\ maxDecodeTime = 0
  /\ sockets = [s \in Sockets |-> "none"]
  /\ timers = {}
  /\ nextTimer = 1
  /\ sent = <<>>
  /\ now = 0
  /\ connectCalls = 0
  /\ userCalls = 0
  /\ delivered = 0
  /\ scheduled = <<>>
  /\ everOpened = FALSE
  /\ localDisconnect = FALSE
  /\ lastOp = NoOp

\* The producer after construction: no connection, no timer.
InitServer ==
  /\ clients = {}
  /\ client = <<>>
  /\ updateIntervals = <<>>
  /\ totalMessagesSent = 0
  /\ totalBytesSent = 0
  /\ frameCounter = 0
  /\ conns = <<>>
  /\ intervals = {}
  /\ nextInterval = 1
  /\ wire = <<>>
  /\ running = TRUE
  /\ received = 0
  /\ fired = 0
  /\ lastMessage = NoMessage

\* Nothing is given to the filter, to the codec or to the metrics.
IdleFilter ==
  /\ filterIn = [prices |-> <<>>, symbols |-> <<>>]
  /\ filterOut = NoFilterOutput

IdleCodec ==
  /\ codecIn = [cryptos |-> <<>>, counter |-> 0, time |-> 0]
  /\ codecBuf = NoBuffer
  /\ codecOut = NoSnapshot

IdleMetrics ==
  /\ metricsIn = <<>>
  /\ metricsOut = NoMetrics

Init ==
  /\ InitManager
  /\ InitServer
  /\ IdleFilter
  /\ IdleCodec
  /\ IdleMetrics

\* The filter is given any price list and any symbol list.
InitFilter ==
  /\ InitManager
  /\ InitServer
  /\ filterIn \in FilterInputs
  /\ filterOut = NoFilterOutput
  /\ IdleCodec
  /\ IdleMetrics

\* calculateMetrics is given any window.
InitMetrics ==
  /\ InitManager
  /\ InitServer
  /\ IdleFilter
  /\ IdleCodec
  /\ metricsIn \in MetricsInputs
  /\ metricsOut = NoMetrics

\* The manager with its first socket open, after n frames without
\* records have arrived on it, the i-th with a latency of i, where n is
\* none or within MaxMessages of the capacity of the window.
InitWindow ==
  /\ \E n \in {0} \cup (MAX_SAMPLES - MaxMessages)..MAX_SAMPLES :
       /\ latencySamples = [i \in 1..n |-> i]
       /\ messagesReceived = n
       /\ bytesReceived = 32 * n
       /\ totalDecoded = n
       /\ minDecodeTime = IF n = 0 THEN Infinity ELSE Finite(NoDecodeTime)
  /\ totalDecodeTime = 0
  /\ maxDecodeTime = 0
  /\ status = "CONNECTED"
  /\ ws = 1
  /\ reconnectTimeout = NULL
  /\ currentReconnectDelay = reconnectDelay
  /\ reconnectAttempts = 0
  /\ connectionStartTime = 0
  /\ allCryptos = <<>>
  /\ sockets = [s \in Sockets |-> IF s = 1 THEN "open" ELSE "none"]
  /\ timers = {}
  /\ nextTimer = 1
  /\ sent = <<>>
  /\ now = 0
  /\ connectCalls = 1
  /\ userCalls = 1
  /\ delivered = 0
  /\ scheduled = <<>>
  /\ everOpened = TRUE
  /\ localDisconnect = FALSE
  /\ lastOp = [op |-> "open", sock |-> 1, code |-> 0]
  /\ InitServer
  /\ IdleFilter
  /\ IdleCodec
  /\ IdleMetrics

\* The codec is given any list of records, frame counter and clock.
InitCodec ==
  /\ InitManager
  /\ InitServer
  /\ IdleFilter
  /\ codecIn \in CodecInputs
  /\ codecBuf = NoBuffer
  /\ codecOut = NoSnapshot
  /\ IdleMetrics

(***************************************************************************)
(* Operations of the application.                                          *)
(***************************************************************************)
\* The application calls connect(url).
Connect(throws) ==
  /\ connectCalls < MaxConnects
  /\ userCalls < MaxUserCalls
  /\ Becomes(connect(World, connectCalls + 1, throws))
  /\ connectCalls' = connectCalls + 1
  /\ userCalls' = userCalls + 1
  /\ localDisconnect' = FALSE
  /\ lastOp' = [op |-> "connect", sock |-> IF throws THEN NULL
                                            ELSE connectCalls + 1,
                code |-> 0]
  /\ UNCHANGED <<now, delivered, everOpened>>

\* The application calls disconnect().
Disconnect ==
  /\ userCalls < MaxUserCalls
  /\ Becomes(disconnect(World))
  /\ userCalls' = userCalls + 1
  /\ localDisconnect' = TRUE
  /\ lastOp' = [op |-> "disconnect", sock |-> ws, code |-> 0]
  /\ UNCHANGED <<now, connectCalls, delivered, everOpened>>

\* The application calls sendFilterCommand, sendFrequencyCommand or
\* requestMetrics.
SendCommand(type) ==
  /\ Len(sent) < MaxSent
  /\ Becomes(sendCommand(World, type))
  /\ lastOp' = [op |-> "send", sock |-> ws, code |-> 0]
  /\ UNCHANGED <<now, connectCalls, userCalls, delivered, everOpened,
                 localDisconnect>>

(***************************************************************************)
(* Events of the platform.                                                 *)
(***************************************************************************)
\* A pending reconnect timer fires: () => this.connect(this.url).
TimerFires(t, throws) ==
  /\ t \in timers
  /\ connectCalls < MaxConnects
  /\ Becomes(connect([World EXCEPT !.timers = timers \ {t}],
                     connectCalls + 1, throws))
  /\ connectCalls' = connectCalls + 1
  /\ lastOp' = [op |-> "timer", sock |-> IF throws THEN NULL
                                          ELSE connectCalls + 1,
                code |-> 0]
  /\ UNCHANGED <<now, userCalls, delivered, everOpened, localDisconnect>>

\* The socket's handshake completes: the open event.
SocketOpens(s) ==
  /\ sockets[s] = "connecting"
  /\ Becomes([onopen([World EXCEPT !.sockets[s] = "open"], now)
                EXCEPT !.scheduled = <<>>])
  /\ everOpened' = TRUE
  /\ lastOp' = [op |-> "open", sock |-> s, code |-> 0]
  /\ UNCHANGED <<now, connectCalls, userCalls, delivered, localDisconnect>>

\* The connection fails (refused, reset, timed out, or closed before it
\* was established): the error event and then the close event, delivered
\* in one task.
SocketFails(s) ==
  /\ sockets[s] \in {"connecting", "open", "closing", "aborting"}
  /\ Becomes(onclose(onerror([World EXCEPT !.sockets[s] = "closed"]),
                     ABNORMAL_CLOSURE))
  /\ lastOp' = [op |-> "fail", sock |-> s, code |-> ABNORMAL_CLOSURE]
  /\ UNCHANGED <<now, connectCalls, userCalls, delivered, everOpened,
                 localDisconnect>>

\* The connection is closed without an error: by the peer on an open
\* socket, or as the end of a close() the manager called.
SocketCloses(s, code) ==
  /\ sockets[s] \in {"open", "closing", "aborting"}
  /\ Becomes(onclose([World EXCEPT !.sockets[s] = "closed"], code))
  /\ lastOp' = [op |-> "close", sock |-> s, code |-> code]
  /\ UNCHANGED <<now, connectCalls, userCalls, delivered, everOpened,
                 localDisconnect>>

\* A binary message arrives on a socket: onmessage, handleMessage,
\* handleBinaryMessage.  A socket still delivers what was in flight when
\* close() was called on it.
BinaryMessage(s, buffer) ==
  /\ sockets[s] \in {"open", "closing"}
  /\ delivered < MaxMessages
  /\ Becomes(handleBinaryMessage(World, buffer, now))
  /\ delivered' = delivered + 1
  /\ lastOp' = [op |-> IF buffer.ok THEN "frame" ELSE "badframe",
                sock |-> s, code |-> 0]
  /\ UNCHANGED <<now, connectCalls, userCalls, everOpened, localDisconnect>>

\* A text message arrives on a socket: onmessage, handleMessage,
\* handleTextMessage.
TextMessage(s) ==
  /\ sockets[s] \in {"open", "closing"}
  /\ Becomes(handleTextMessage(World))
  /\ lastOp' = [op |-> "text", sock |-> s, code |-> 0]
  /\ UNCHANGED <<now, connectCalls, userCalls, delivered, everOpened,
                 localDisconnect>>

\* The local clock advances.
Tick ==
  /\ now < MaxTime
  /\ now' = now + 1
  /\ lastOp' = [op |-> "tick", sock |-> NULL, code |-> 0]
  /\ UNCHANGED <<status, ws, reconnectTimeout, currentReconnectDelay,
                 reconnectAttempts, connectionStartTime, latencySamples,
                 messagesReceived, bytesReceived, allCryptos, totalDecoded,
                 totalDecodeTime, minDecodeTime, maxDecodeTime,
                 sockets, timers, nextTimer, sent, connectCalls, userCalls,
                 delivered, scheduled, everOpened, localDisconnect>>
  /\ UNCHANGED <<svars, fvars>>

\* The connection lifecycle.
Next ==
  \/ \E throws \in BOOLEAN : Connect(throws)
  \/ Disconnect
  \/ \E t \in timers, throws \in BOOLEAN : TimerFires(t, throws)
  \/ \E s \in Sockets : SocketOpens(s)
  \/ \E s \in Sockets : SocketFails(s)
  \/ \E s \in Sockets, code \in CloseCodes : SocketCloses(s, code)

Spec == Init /\ [][Next]_vars

\* The lifecycle, over fewer connections, with the messages the sockets
\* deliver and the local clock.
StreamConnect(throws) ==
  /\ connectCalls < MaxStreamConnects
  /\ userCalls < MaxStreamUserCalls
  /\ Connect(throws)

StreamDisconnect == userCalls < MaxStreamUserCalls /\ Disconnect

StreamTimerFires(t, throws) ==
  connectCalls < MaxStreamConnects /\ TimerFires(t, throws)

NextStream ==
  \/ \E throws \in BOOLEAN : StreamConnect(throws)
  \/ StreamDisconnect
  \/ \E t \in timers, throws \in BOOLEAN : StreamTimerFires(t, throws)
  \/ \E s \in Sockets : SocketOpens(s)
  \/ \E s \in Sockets : SocketFails(s)
  \/ \E s \in Sockets, code \in CloseCodes : SocketCloses(s, code)
  \/ \E s \in Sockets, buffer \in Buffers : BinaryMessage(s, buffer)
  \/ \E s \in Sockets : TextMessage(s)
  \/ Tick

SpecStream == Init /\ [][NextStream]_vars

\* The lifecycle with the frames the sockets deliver, where the
\* application may call disconnect() after connect().
LeaveConnect(throws) == connectCalls < MaxStreamConnects /\ Connect(throws)

NextLeave ==
  \/ \E throws \in BOOLEAN : LeaveConnect(throws)
  \/ Disconnect
  \/ \E t \in timers, throws \in BOOLEAN : StreamTimerFires(t, throws)
  \/ \E s \in Sockets : SocketOpens(s)
  \/ \E s \in Sockets : SocketFails(s)
  \/ \E s \in Sockets, code \in CloseCodes : SocketCloses(s, code)
  \/ \E s \in Sockets, buffer \in Buffers : BinaryMessage(s, buffer)
  \/ Tick

SpecLeave == Init /\ [][NextLeave]_vars

\* The lifecycle, over fewer connections, with the commands the
\* application sends.
SendConnect(throws) == connectCalls < MaxSendConnects /\ Connect(throws)

SendTimerFires(t, throws) ==
  connectCalls < MaxSendConnects /\ TimerFires(t, throws)

NextSend ==
  \/ \E throws \in BOOLEAN : SendConnect(throws)
  \/ Disconnect
  \/ \E type \in CommandTypes : SendCommand(type)
  \/ \E t \in timers, throws \in BOOLEAN : SendTimerFires(t, throws)
  \/ \E s \in Sockets : SocketOpens(s)
  \/ \E s \in Sockets : SocketFails(s)
  \/ \E s \in Sockets, code \in CloseCodes : SocketCloses(s, code)

SpecSend == Init /\ [][NextSend]_vars

(***************************************************************************)
(* Every attempt fails and disconnect() is never called: connect() may     *)
(* throw, a socket that was created fails before it opens.  The event loop *)
(* runs every timer that is due and the platform reports every failure:    *)
(* while a timer is pending or an attempt is in flight, one of these       *)
(* events eventually happens (weak fairness of their disjunction).         *)
(***************************************************************************)
AttemptFails(s) == sockets[s] = "connecting" /\ SocketFails(s)

NextFail ==
  \/ \E throws \in BOOLEAN : Connect(throws)
  \/ \E t \in timers, throws \in BOOLEAN : TimerFires(t, throws)
  \/ \E s \in Sockets : AttemptFails(s)

SpecFail ==
  /\ Init
  /\ [][NextFail]_vars
  /\ WF_vars(\/ \E t \in timers, throws \in BOOLEAN : TimerFires(t, throws)
             \/ \E s \in Sockets : AttemptFails(s))

(***************************************************************************)
(* Events of the producer.  Every handler runs to completion before the    *)
(* next event is taken.                                                    *)
(***************************************************************************)
\* A client connects: the platform creates the socket, and the server's
\* "connection" event is handled.
ClientConnects(c) ==
  /\ running
  /\ c = Len(conns) + 1
  /\ ServerBecomes(handleConnection(
                     [Server EXCEPT !.conns = Append(@, "open"),
                                    !.client = Append(@, NoClient),
                                    !.updateIntervals = Append(@, NULL),
                                    !.wire = Append(@, NoTraffic)], c))
  /\ lastMessage' = NoMessage
  /\ UNCHANGED <<running, received, fired>>

\* The "message" event of an open socket, with its handler.
MessageEvent(c, data) ==
  /\ running
  /\ c \in Accepted
  /\ conns[c] = "open"
  /\ ServerBecomes(handleMessage(Server, c, data))
  /\ received' = received + 1
  /\ lastMessage' = [conn |-> c, data |-> data]
  /\ UNCHANGED <<running, fired>>

\* A message of a client arrives on its open socket.
MessageArrives(c, data) == received < MaxCommands /\ MessageEvent(c, data)

\* A stream timer fires.  An exception that leaves the callback is an
\* uncaught exception of the process, which ends it.
TimerEvent(i) ==
  /\ running
  /\ LET w == streamTick(Server, i)
     IN /\ ServerBecomes(w)
        /\ running' = ~w.thrown
  /\ fired' = fired + 1
  /\ lastMessage' = NoMessage
  /\ UNCHANGED received

IntervalFires(i) == fired < MaxTicks /\ TimerEvent(i)

\* The connection of a client ends: the socket stops being OPEN.
ConnectionEnds(c) ==
  /\ running
  /\ c \in Accepted
  /\ conns[c] = "open"
  /\ ServerBecomes([Server EXCEPT !.conns[c] = "closing"])
  /\ lastMessage' = NoMessage
  /\ UNCHANGED <<running, received, fired>>

\* The socket fails: its "error" event, then its "close" event, each with
\* its handler.
ErrorEvent(c) ==
  /\ running
  /\ c \in Accepted
  /\ conns[c] = "closing"
  /\ ServerBecomes(handleDisconnect(
                     handleDisconnect([Server EXCEPT !.conns[c] = "closed"],
                                      c), c))
  /\ lastMessage' = NoMessage
  /\ UNCHANGED <<running, received, fired>>

\* The socket's "close" event.
CloseEvent(c) ==
  /\ running
  /\ c \in Accepted
  /\ conns[c] = "closing"
  /\ ServerBecomes(handleDisconnect([Server EXCEPT !.conns[c] = "closed"], c))
  /\ lastMessage' = NoMessage
  /\ UNCHANGED <<running, received, fired>>

NextServer ==
  \/ \E c \in Conns : ClientConnects(c)
  \/ \E c \in Conns, data \in Messages : MessageArrives(c, data)
  \/ \E i \in intervals : IntervalFires(i)
  \/ \E c \in Conns : ConnectionEnds(c)
  \/ \E c \in Conns : ErrorEvent(c)
  \/ \E c \in Conns : CloseEvent(c)

SpecServer == Init /\ [][NextServer]_vars

\* Two clients of the producer: their connections, a command of either,
\* the ticks of their streams, and their closing.
PairMessages ==
  { Command("FILTER_COINS", "object", JsArray(<<"ETH">>), 0),
    Command("CHANGE_FREQUENCY", "object", NoArray, 20),
    Command("GET_METRICS", "object", NoArray, 0) }

\* The events the producer has handled: connections, messages, firings of
\* timers, and the two steps in which a socket closes.
RECURSIVE Closings(_)
Closings(c) ==
  IF c = 0 THEN 0
  ELSE Closings(c - 1) + (CASE conns[c] = "open" -> 0
                            [] conns[c] = "closing" -> 1
                            [] OTHER -> 2)

PairEvents == Len(conns) + received + fired + Closings(Len(conns))

PairConnects(c) == PairEvents < MaxPairEvents /\ ClientConnects(c)

PairMessage(c, data) == PairEvents < MaxPairEvents /\ MessageEvent(c, data)

PairIntervalFires(i) == PairEvents < MaxPairEvents /\ TimerEvent(i)

PairConnectionEnds(c) == PairEvents < MaxPairEvents /\ ConnectionEnds(c)

PairCloseEvent(c) == PairEvents < MaxPairEvents /\ CloseEvent(c)

PairErrorEvent(c) == PairEvents < MaxPairEvents /\ ErrorEvent(c)

NextPair ==
  \/ PairConnects(Len(conns) + 1)
  \/ \E c \in Accepted, data \in PairMessages : PairMessage(c, data)
  \/ \E i \in intervals : PairIntervalFires(i)
  \/ \E c \in Accepted : PairConnectionEnds(c)
  \/ \E c \in Accepted : PairCloseEvent(c)
  \/ \E c \in Accepted : PairErrorEvent(c)

SpecPair == Init /\ [][NextPair]_vars

\* The filter is applied to its arguments.
ApplyFilter ==
  /\ ~filterOut.applied
  /\ filterOut' =
       [applied |-> TRUE,
        filtered |-> getFilteredPrices(filterIn.prices, filterIn.symbols),
        selected |-> selectCryptos(filterIn.prices, filterIn.symbols)]
  /\ UNCHANGED <<filterIn, codecIn, codecBuf, codecOut, metricsIn,
                 metricsOut, cvars, svars>>

NextFilter == ApplyFilter

SpecFilter == InitFilter /\ [][NextFilter]_vars

\* The list is encoded.
CodecEncode ==
  /\ ~codecBuf.sent
  /\ codecBuf' = [sent |-> TRUE, cut |-> FALSE,
                  buffer |-> encode(codecIn.counter, codecIn.time,
                                    codecIn.cryptos)]
  /\ UNCHANGED <<filterIn, filterOut, codecIn, codecOut, metricsIn,
                 metricsOut, cvars, svars>>

\* The buffer loses its end before anything reads it.
CodecTruncate(n, throws) ==
  /\ codecBuf.sent
  /\ ~codecBuf.cut
  /\ ~codecOut.decoded
  /\ delivered = 0
  /\ codecBuf' = [codecBuf EXCEPT !.cut = TRUE,
                                  !.buffer = Prefix(@, n, throws)]
  /\ UNCHANGED <<filterIn, filterOut, codecIn, codecOut, metricsIn,
                 metricsOut, cvars, svars>>

\* The buffer is decoded.
CodecDecode ==
  /\ codecBuf.sent
  /\ ~codecOut.decoded
  /\ codecOut' = [decoded |-> TRUE, worldState |-> decode(codecBuf.buffer)]
  /\ UNCHANGED <<filterIn, filterOut, codecIn, codecBuf, metricsIn,
                 metricsOut, cvars, svars>>

\* The buffer is given to the manager's handler of binary messages.
CodecReceive ==
  /\ codecBuf.sent
  /\ delivered = 0
  /\ Becomes(handleBinaryMessage(World, codecBuf.buffer, now))
  /\ delivered' = delivered + 1
  /\ lastOp' = [op |-> IF codecBuf.buffer.ok THEN "frame" ELSE "badframe",
                sock |-> NULL, code |-> 0]
  /\ UNCHANGED <<now, connectCalls, userCalls, everOpened, localDisconnect>>

NextCodec ==
  \/ CodecEncode
  \/ \E n \in CutLengths(codecBuf.buffer), throws \in BOOLEAN :
       CodecTruncate(n, throws)
  \/ CodecDecode
  \/ CodecReceive

SpecCodec == InitCodec /\ [][NextCodec]_vars

\* The adapter taken alone: buffers are decoded, each in some time, and
\* the metrics are reset.
AdapterDecode(buffer, decodeTime) ==
  /\ totalDecoded < MaxDecodes
  /\ Becomes(decodeMetrics(World, buffer, decodeTime))
  /\ lastOp' = [op |-> IF buffer.ok THEN "decode" ELSE "baddecode",
                sock |-> NULL, code |-> decodeTime]
  /\ UNCHANGED <<now, connectCalls, userCalls, delivered, everOpened,
                 localDisconnect>>

AdapterReset ==
  /\ Becomes(FlatBuffersAdapter_resetMetrics(World))
  /\ lastOp' = [op |-> "reset", sock |-> NULL, code |-> 0]
  /\ UNCHANGED <<now, connectCalls, userCalls, delivered, everOpened,
                 localDisconnect>>

NextAdapter ==
  \/ \E buffer \in Buffers, decodeTime \in 0..MaxDecodeTime :
       AdapterDecode(buffer, decodeTime)
  \/ AdapterReset

SpecAdapter == Init /\ [][NextAdapter]_vars

\* The metrics of the window are calculated.
ApplyMetrics ==
  /\ ~metricsOut.calculated
  /\ metricsOut' =
       calculateMetrics([World EXCEPT !.latencySamples = metricsIn], now)
  /\ UNCHANGED <<filterIn, filterOut, codecIn, codecBuf, codecOut,
                 metricsIn, cvars, svars>>

NextMetrics == ApplyMetrics

SpecMetrics == InitMetrics /\ [][NextMetrics]_vars

\* Frames arrive on the open socket of a manager whose window is empty or
\* nearly full.
NextWindow ==
  \/ \E s \in Sockets, buffer \in Buffers : BinaryMessage(s, buffer)
  \/ Tick

SpecWindow == InitWindow /\ [][NextWindow]_vars

(***************************************************************************)
(* Properties of the consumer connection manager.                          *)
(***************************************************************************)
LiveSockets == {s \in Sockets : sockets[s] \in {"connecting", "open"}}

\* A step that delivers the close event of socket lastOp'.sock.
CloseDelivered == lastOp'.op \in {"close", "fail"}

\* C1: after a locally initiated disconnect(), in whatever state it was
\* called, and with no later connect() call by the application, the status
\* stays DISCONNECTED and no reconnect timer is pending or fires, whatever
\* events the closed socket still delivers.
C1_DisconnectIsTerminal ==
  localDisconnect => status = "DISCONNECTED" /\ timers = {}

\* C2: a call of disconnect() or connect() cancels every pending reconnect:
\* no timer that was pending before the call is still pending after it.
C2_CallCancelsPendingReconnect ==
  [][lastOp'.op \in {"connect", "disconnect"} => timers' \cap timers = {}]_vars

\* C3: at most one socket with the manager's handlers attached is
\* connecting or open.
C3_SingleLiveSocket == Cardinality(LiveSockets) <= 1

\* C4: the k-th reconnect armed since the last open event (or since
\* construction) is armed with the delay min(2000 * 2^(k-1), 30000):
\* 2000, 4000, 8000, 16000, then 30000 for every further failure.
C4_BackoffSequence ==
  \A k \in 1..Len(scheduled) :
    scheduled[k] = Min(reconnectDelay * 2^(k - 1), maxReconnectDelay)

\* C4 witness: six failures in a row, the sixth armed at the cap.
C4_Witness == Len(scheduled) = 6 /\ scheduled[6] = maxReconnectDelay

\* C5: the open event leaves the status CONNECTED, the back-off delay at
\* its base value and the attempt counter at 0, and the first reconnect
\* armed after an open event is armed with the base delay.
C5_OpenResetsBackoff ==
  /\ lastOp.op = "open" =>
       /\ status = "CONNECTED"
       /\ currentReconnectDelay = reconnectDelay
       /\ reconnectAttempts = 0
  /\ everOpened /\ Len(scheduled) >= 1 => scheduled[1] = reconnectDelay

\* C5 witness: a socket opened after at least two failures, and the first
\* failure after that open has been rescheduled.
C5_Witness ==
  /\ everOpened
  /\ Len(scheduled) = 1
  /\ nextTimer >= 4
  /\ lastOp.op \in {"close", "fail"}

\* C6: a close event or a transport failure of the manager's open socket
\* while the status is CONNECTED leaves the status RECONNECTING, the
\* attempt counter one higher, exactly one reconnect pending, armed with
\* the delay current before the event, and the delay doubled up to the cap.
C6_UnexpectedCloseReconnects ==
  [][(/\ CloseDelivered
      /\ status = "CONNECTED"
      /\ lastOp'.sock = ws
      /\ sockets[ws] = "open")
     => /\ status' = "RECONNECTING"
        /\ reconnectAttempts' = reconnectAttempts + 1
        /\ timers' = {[id |-> nextTimer, delay |-> currentReconnectDelay]}
        /\ currentReconnectDelay' =
             Min(2 * currentReconnectDelay, maxReconnectDelay)]_vars

\* C7: the close event of a socket on which the manager did not call
\* close() arms a reconnect, whatever close code it carries.
C7_EveryPeerCloseReconnects ==
  [][(CloseDelivered /\ sockets[lastOp'.sock] \in {"connecting", "open"})
     => /\ nextTimer' = nextTimer + 1
        /\ status' = "RECONNECTING"]_vars

\* C8: when every attempt fails and disconnect() is never called, the
\* manager, once started, always has a connecting socket or a pending
\* reconnect timer, and attempts keep being made: the number of connect()
\* calls grows until it reaches the number of attempts of the model.
C8_ReconnectsForever ==
  /\ [](connectCalls > 0 =>
          (\E s \in Sockets : sockets[s] = "connecting") \/ timers # {})
  /\ (connectCalls > 0) ~> (connectCalls = MaxConnects)

\* C8 witness: the fourth failure in a row has armed a reconnect at 16000.
C8_Witness ==
  /\ reconnectAttempts = 4
  /\ \E t \in timers : t.delay = 16000
  /\ LiveSockets = {}

\* C9: a command is transmitted only while the status is CONNECTED.
C9_SendOnlyWhenConnected ==
  [][sent' # sent => status = "CONNECTED"]_vars

\* C10: a binary message that fails to decode changes nothing of the
\* connection, the back-off, the latency window, the counters or the
\* presented snapshot, and the well-formed message after it is recorded.
C10_BadFrameDropped ==
  [][/\ lastOp'.op = "badframe" =>
          UNCHANGED <<status, ws, sockets, timers, reconnectTimeout,
                      currentReconnectDelay, reconnectAttempts,
                      latencySamples, messagesReceived, bytesReceived,
                      allCryptos, totalDecoded>>
     /\ (lastOp.op = "badframe" /\ lastOp'.op = "frame") =>
          /\ messagesReceived' = messagesReceived + 1
          /\ Len(latencySamples') = Len(latencySamples) + 1
          /\ latencySamples'[Len(latencySamples')] \in (0 - MaxTime)..MaxTime
          /\ bytesReceived' > bytesReceived]_vars

\* C10 witness: of two binary messages the first was rejected by decode
\* and dropped, the second was decoded and recorded.
C10_Witness ==
  /\ lastOp.op = "frame"
  /\ delivered = 2
  /\ messagesReceived = 1
  /\ Len(latencySamples) = 1

TimersOf(c) == {i \in intervals : i.conn = c}

\* The step handles a message, and the message is `data` on connection c.
Handles(c, data) == lastMessage' = [conn |-> c, data |-> data]

\* The step is a firing of a stream timer that sends a frame on c.
SendsFrame(c) == fired' = fired + 1 /\ wire'[c].frames = wire[c].frames + 1

\* The step writes exactly one response on c, of the given type.
AnswersOnce(c, type) ==
  /\ wire'[c].responses = wire[c].responses + 1
  /\ wire'[c].last.type = type

\* C12: no connection ever has two stream timers live at once.
C12_OneIntervalPerConnection ==
  \A c \in Accepted : Cardinality(TimersOf(c)) <= 1

\* A cadence change was acknowledged on a connection that was started
\* with one timer and restarted with another, and one timer is live.
C12_Witness ==
  \E c \in Accepted :
    /\ wire[c].last.type = "FREQUENCY_CHANGED"
    /\ nextInterval > 2
    /\ Cardinality(TimersOf(c)) = 1
    /\ fired > 0

\* C13: a CHANGE_FREQUENCY whose frequency is not 10, 20 or 30 is answered
\* by one ERROR response with code INVALID_CADENCE, and changes neither the
\* cadence of the connection nor its timer.
C13_InvalidCadenceRejected ==
  [][\A c \in Accepted, data \in Messages :
       (/\ Handles(c, data)
        /\ data.type = "CHANGE_FREQUENCY"
        /\ data.payload = "object"
        /\ data.frequency \notin Frequencies)
       => /\ AnswersOnce(c, "ERROR")
          /\ wire'[c].last.code = "INVALID_CADENCE"
          /\ client'[c].frequency = client[c].frequency
          /\ intervals' = intervals]_vars

\* C14: a CHANGE_FREQUENCY with an allowed frequency is answered next by
\* FREQUENCY_CHANGED carrying that frequency; every frame is sent by a
\* timer whose period is 1000 / cadence; and in every state the period of
\* a live timer is 1000 / the cadence stored for its connection.
C14_PeriodMatchesCadence ==
  /\ [](\A i \in intervals :
          i.period = intervalMs(client[i.conn].frequency))
  /\ [][\A c \in Accepted :
          /\ \A data \in Messages :
               (/\ Handles(c, data)
                /\ data.type = "CHANGE_FREQUENCY"
                /\ data.payload = "object"
                /\ data.frequency \in Frequencies)
               => /\ AnswersOnce(c, "FREQUENCY_CHANGED")
                  /\ wire'[c].last.frequency = data.frequency
          /\ SendsFrame(c) =>
               \A i \in TimersOf(c) :
                 i.period = intervalMs(client[c].frequency)]_vars

\* The positions of `prices` a symbol list keeps: all of them when the list
\* is empty, else those whose symbol occurs in the list.
Kept(prices, symbols) ==
  IF symbols = <<>>
  THEN DOMAIN prices
  ELSE {i \in DOMAIN prices :
          prices[i].symbol \in {symbols[k] : k \in DOMAIN symbols}}

\* `result` holds the kept records of `prices`, each once, in source order.
IsFilterOf(result, prices, symbols) ==
  LET K == Kept(prices, symbols)
  IN /\ Len(result) = Cardinality(K)
     /\ \A i \in K : result[Cardinality({k \in K : k <= i})] = prices[i]

\* C15: a FILTER_COINS command that carries a symbol set stores it and
\* emits FILTER_APPLIED with it; every frame sent after an acknowledgement
\* holds the price list filtered by the set last acknowledged.
C15_FilterReplacedAndUsed ==
  [][\A c \in Accepted :
       /\ \A data \in Messages :
            (/\ Handles(c, data)
             /\ data.type = "FILTER_COINS"
             /\ data.payload = "object")
            => /\ client'[c].symbols = data.symbols
               /\ wire'[c].responses > wire[c].responses
               /\ wire'[c].acked
               /\ wire'[c].applied = data.symbols
       /\ (SendsFrame(c) /\ wire[c].acked)
            => /\ wire[c].applied = client[c].symbols
               /\ IsFilterOf(wire'[c].frame.cryptos, getCurrentPrices,
                             wire[c].applied.items)]_vars

\* A frame that holds the one coin of an acknowledged filter.
C15_Witness ==
  \E c \in Accepted :
    /\ wire[c].acked
    /\ wire[c].applied = JsArray(<<"ETH">>)
    /\ wire[c].frames > 0
    /\ Len(wire[c].frame.cryptos) = 1
    /\ wire[c].frame.cryptos[1].symbol = "ETH"

\* C16: the filter returns every record for the empty symbol list, and
\* otherwise exactly the records whose symbol is in the list, in source
\* order; so does the choice a stream tick makes around it.
C16_FilterSemantics ==
  filterOut.applied =>
    /\ IsFilterOf(filterOut.filtered, filterIn.prices, filterIn.symbols)
    /\ IsFilterOf(filterOut.selected, filterIn.prices, filterIn.symbols)
    /\ filterIn.symbols = <<>> => filterOut.filtered = filterIn.prices
    /\ \A j \in DOMAIN filterOut.filtered :
         includes(filterIn.symbols, filterOut.filtered[j].symbol)
           \/ filterIn.symbols = <<>>

\* The filter dropped a record, kept two, and met a symbol no record has.
C16_Witness ==
  /\ filterOut.applied
  /\ includes(filterIn.symbols, "XRP")
  /\ Len(filterIn.prices) = 3
  /\ Len(filterOut.filtered) = 2
  /\ filterOut.filtered[1] # filterOut.filtered[2]

\* C17: every FILTER_COINS, CHANGE_FREQUENCY or GET_METRICS command received
\* on an open connection is answered by exactly one response on it,
\* whatever its payload.
C17_ExactlyOneResponse ==
  [][\A c \in Accepted, data \in Messages :
       (/\ Handles(c, data)
        /\ data.text = "json"
        /\ data.type \in CommandTypes)
       => wire'[c].responses = wire[c].responses + 1]_vars

\* C18: an envelope whose type is none of the command types is answered
\* with an ERROR response.
C18_UnknownTypeReported ==
  [][\A c \in Accepted, data \in Messages :
       (/\ Handles(c, data)
        /\ data.text = "json"
        /\ data.type \notin CommandTypes)
       => AnswersOnce(c, "ERROR")]_vars

\* A FILTER_COINS command without a symbol array.
Malformed(data) ==
  /\ data.text = "json"
  /\ data.type = "FILTER_COINS"
  /\ data.payload = "null" \/ ~data.symbols.defined

\* C19: a command with a malformed payload is answered with an ERROR
\* response, changes neither the filter nor the cadence, and leaves the
\* connection registered with its timer; the ticks that follow do not end
\* the stream.
C19_MalformedPayloadReported ==
  [][\A c \in Accepted :
       /\ \A data \in Messages :
            (Handles(c, data) /\ Malformed(data))
            => /\ AnswersOnce(c, "ERROR")
               /\ client'[c] = client[c]
               /\ c \in clients'
               /\ intervals' = intervals
       /\ fired' = fired + 1 => running']_vars

\* C20: a firing of a stream timer, failed or not, leaves the process
\* running, every connection registered, and the timer of every open
\* connection live.
C20_TickFailureContained ==
  [][fired' = fired + 1 =>
       /\ running'
       /\ clients' = clients
       /\ updateIntervals' = updateIntervals
       /\ \A i \in intervals : conns[i.conn] = "open" => i \in intervals']_vars

(***************************************************************************)
(* Properties of the producer with several clients.                        *)
(***************************************************************************)
\* A connection is accepted in this step.
Accepts(c) == Len(conns') = Len(conns) + 1 /\ c = Len(conns')

\* C21: once the close (or error) event of a connection is handled, its
\* stream timer is cancelled and its client record is removed; no frame is
\* sent on a connection that is no longer open; and a connection that is
\* accepted starts with the empty symbol list and the default frequency,
\* its timer armed for that frequency, whatever earlier connections did.
C21_CloseDiscardsState ==
  [][
      /\ \A c \in DOMAIN conns' :
           conns'[c] = "closed" =>
             /\ c \notin clients'
             /\ updateIntervals'[c] = NULL
             /\ {i \in intervals' : i.conn = c} = {}
      /\ \A c \in Accepted :
           conns[c] # "open" => wire'[c].frames = wire[c].frames
      /\ \A c \in DOMAIN conns' :
           Accepts(c) =>
             /\ client'[c].symbols = JsArray(<<>>)
             /\ client'[c].frequency = DEFAULT_FREQUENCY
             /\ c \in clients'
             /\ \E i \in intervals' :
                  /\ i.conn = c
                  /\ i.id = updateIntervals'[c]
                  /\ i.period = intervalMs(DEFAULT_FREQUENCY)
    ]_vars

\* The first connection changed its frequency and closed; the second one
\* was accepted after that and has received a frame.
C21_Witness ==
  /\ conns = <<"closed", "open">>
  /\ wire[1].last.type = "FREQUENCY_CHANGED"
  /\ client[2].frequency = DEFAULT_FREQUENCY
  /\ wire[2].frames = 1

\* C22: the command of one connection leaves the symbol list, the
\* frequency and the timer of every other connection as they were.
C22_CommandTouchesOwnRecordOnly ==
  [][\A a \in Accepted :
       lastMessage'.conn = a =>
         \A b \in Accepted \ {a} :
           /\ client'[b].symbols = client[b].symbols
           /\ client'[b].frequency = client[b].frequency
           /\ updateIntervals'[b] = updateIntervals[b]
           /\ {i \in intervals' : i.conn = b} = TimersOf(b)]_vars

\* Two connections are open; the second one changed its filter or its
\* frequency, the first one streams with what it started with.
C22_Witness ==
  /\ conns = <<"open", "open">>
  /\ lastMessage.conn = 2
  /\ wire[2].last.type \in {"FILTER_APPLIED", "FREQUENCY_CHANGED"}
  /\ client[1] # client[2]
  /\ Cardinality(TimersOf(1)) = 1

\* The binary frames written so far on the first c sockets.
RECURSIVE FramesOn(_)
FramesOn(c) == IF c = 0 THEN 0 ELSE FramesOn(c - 1) + wire[c].frames

FramesSent == FramesOn(Len(conns))

C24_CountIsPostFilter ==
  [][\A c \in Accepted :
       SendsFrame(c) =>
         LET frame == wire'[c].frame
             symbols == client[c].symbols.items
             kept == {k \in 1..Len(CRYPTOS) : includes(symbols, CRYPTOS[k])}
         IN /\ frame.totalCryptos = Len(frame.cryptos)
            /\ frame.totalCryptos = IF symbols = <<>> THEN Len(CRYPTOS)
                                    ELSE Cardinality(kept)]_vars

\* A frame with one record was sent from a source of three.
C24_Witness ==
  \E c \in Accepted :
    /\ wire[c].frames > 0
    /\ wire[c].frame.totalCryptos = 1
    /\ Len(wire[c].frame.cryptos) = 1
    /\ Len(getCurrentPrices) = 3

\* C25: the answer to GET_METRICS is one METRICS response that reports the
\* connections whose close event has not been handled and the binary
\* frames written so far on all connections.
C25_MetricsAreExact ==
  [][\A c \in Accepted :
       (lastMessage'.conn = c /\ lastMessage'.data.type = "GET_METRICS") =>
         /\ AnswersOnce(c, "METRICS")
         /\ wire'[c].last.activeConnections =
              Cardinality({d \in Accepted : conns[d] # "closed"})
         /\ wire'[c].last.totalMessagesSent = FramesSent]_vars

\* Two connections have each received a frame, and one of them asked for
\* the metrics after that.
C25_Witness ==
  \E c \in Accepted :
    /\ Len(conns) = 2
    /\ lastMessage.conn = c
    /\ lastMessage.data.type = "GET_METRICS"
    /\ wire[1].frames = 1
    /\ wire[2].frames = 1
    /\ wire[c].last.totalMessagesSent = 2
    /\ wire[c].last.activeConnections = 2

(***************************************************************************)
(* Properties of the latency window and of the metrics.                    *)
(***************************************************************************)
\* The last n elements of a sequence, all of them when it has fewer.
LastN(seq, n) ==
  IF Len(seq) <= n THEN seq ELSE SubSeq(seq, Len(seq) - n + 1, Len(seq))

\* C26: the window never holds more than MAX_SAMPLES samples; an arrival
\* that is recorded appends its latency and, when the window was full,
\* removes the oldest sample, so that the window holds the latest
\* min(n, MAX_SAMPLES) latencies of the n recorded, in their order.
C26_WindowKeepsLatest ==
  [][lastOp'.op = "frame" =>
       LET latency == latencySamples'[Len(latencySamples')]
       IN /\ latencySamples' =
               LastN(Append(latencySamples, latency), MAX_SAMPLES)
          /\ latency \in {now - buffer.timestamp : buffer \in Buffers}
          /\ messagesReceived' = messagesReceived + 1
          /\ Len(latencySamples') = Min(messagesReceived', MAX_SAMPLES)]_vars

\* The window was full when two more frames arrived: it is full, the two
\* oldest samples are gone and the latest two are at its end.
C26_Witness ==
  /\ messagesReceived = MAX_SAMPLES + 2
  /\ Len(latencySamples) = MAX_SAMPLES
  /\ latencySamples[1] = 3
  /\ latencySamples[MAX_SAMPLES - 2] = MAX_SAMPLES
  /\ latencySamples[MAX_SAMPLES] \in {-1, 0}

\* v is the element at index k, counted from zero, of the ascending
\* sorted copy of the samples.
IsSortedAt(samples, k, v) ==
  /\ \E i \in DOMAIN samples : samples[i] = v
  /\ Cardinality({i \in DOMAIN samples : samples[i] < v}) <= k
  /\ k < Cardinality({i \in DOMAIN samples : samples[i] <= v})

IsPercentile(samples, hundredths, v) ==
  IF samples = <<>>
  THEN v = 0
  ELSE IsSortedAt(samples, (Len(samples) * hundredths) \div 100, v)

\* C27: each of p50, p95 and p99 is the element at index floor(p * count),
\* counted from zero, of the ascending sorted copy of the window, and 0
\* for the empty window; for the hundred samples 10, 20, ..., 1000 p50 is
\* the element at index 50, which is 510, and p99 the one at index 99,
\* which is 1000.
C27_PercentileByFloorIndex ==
  metricsOut.calculated =>
    /\ IsPercentile(metricsIn, 50, metricsOut.latencyP50)
    /\ IsPercentile(metricsIn, 95, metricsOut.latencyP95)
    /\ IsPercentile(metricsIn, 99, metricsOut.latencyP99)
    /\ Len(metricsIn) = 100 =>
         /\ metricsOut.latencyP50 = 510
         /\ metricsOut.latencyP99 = 1000

\* The metrics of the hundred samples, given latest first.
C27_Witness ==
  /\ metricsOut.calculated
  /\ Len(metricsIn) = 100
  /\ metricsIn[1] = 1000
  /\ metricsOut.latencyP95 = 960

\* C28: the counters that messagesPerSecond and bytesPerSecond divide count
\* the arrivals since the instant the elapsed time is measured from: when
\* a socket opens and that instant is set, nothing has arrived since it,
\* and the counters are zero.
C28_CountersShareOrigin ==
  [][lastOp'.op = "open" =>
       /\ connectionStartTime' = now
       /\ messagesReceived' = 0
       /\ bytesReceived' = 0]_vars

(***************************************************************************)
(* Properties of the codec.                                                *)
(***************************************************************************)
\* The snapshot carries the frame id, the timestamp and the count given
\* at encode time, and as many records as the list.
HeaderKept ==
  /\ ~codecOut.worldState.failed
  /\ codecOut.worldState.frameId = codecIn.counter
  /\ codecOut.worldState.timestamp = codecIn.time
  /\ codecOut.worldState.totalCryptos = Len(codecIn.cryptos)
  /\ Len(codecOut.worldState.cryptos) = Len(codecIn.cryptos)

Abs(x) == IF x < 0 THEN 0 - x ELSE x

\* y is x with a relative error of at most 2^-24, which makes it x for an
\* x of at most 24 significant bits.
Near(y, x) == Abs(y - x) * 16777216 <= Abs(x)

NearRecord(out, in) ==
  /\ out.symbol = in.symbol
  /\ out.name = in.name
  /\ out.lastUpdated = in.lastUpdated
  /\ Near(out.price, in.price)
  /\ Near(out.priceChange24h, in.priceChange24h)
  /\ Near(out.marketCap, in.marketCap)
  /\ Near(out.volume24h, in.volume24h)
  /\ Near(out.high24h, in.high24h)
  /\ Near(out.low24h, in.low24h)

\* C29 as stated: decoding the encoded list yields the frame id, the
\* timestamp and the count of encode time, and records equal to those of
\* the list, field by field, in the same order.
C29_RoundTripExact ==
  (codecOut.decoded /\ ~codecBuf.cut) =>
    /\ HeaderKept
    /\ codecOut.worldState.cryptos = codecIn.cryptos

\* C29: decoding the encoded list yields the frame id, the timestamp and
\* the count of encode time, and the records of the list in their order,
\* with the symbol, the name and lastUpdated of each as they were and each
\* numeric field within the precision of a 32-bit float of what it was.
C29_RoundTripToFloatPrecision ==
  (codecOut.decoded /\ ~codecBuf.cut) =>
    /\ HeaderKept
    /\ \A i \in DOMAIN codecIn.cryptos :
         NearRecord(codecOut.worldState.cryptos[i], codecIn.cryptos[i])

\* A list of two records went through the codec: the first with a price
\* of more than 24 bits, which came back rounded, the second with a
\* negative price change, which came back as it was.
C29_Witness ==
  /\ codecOut.decoded
  /\ ~codecBuf.cut
  /\ Len(codecIn.cryptos) = 2
  /\ codecIn.cryptos[1].price = 16777217
  /\ codecOut.worldState.cryptos[1].price = 16777216
  /\ codecIn.cryptos[2].priceChange24h = -1
  /\ codecOut.worldState.cryptos[2].priceChange24h = -1

\* C30: decode of a buffer that is the beginning of a frame and not the
\* whole of it (the empty buffer, a buffer shorter than a header, a frame
\* without its end) fails, and the manager given such a buffer records no
\* latency sample.
C30_TruncatedRejected ==
  [][codecBuf.cut =>
       /\ codecOut'.decoded => codecOut'.worldState.failed
       /\ latencySamples' = latencySamples]_vars

(***************************************************************************)
(* Properties of the decode counter of the adapter.                        *)
(***************************************************************************)
\* The metrics of an adapter nothing was decoded with.
FreshMetrics ==
  [averageDecodeTime |-> Quotient(0, 1), minDecodeTime |-> 0,
   maxDecodeTime |-> 0, totalDecoded |-> 0]

\* C31: a successful decode adds one to the count and its time to the
\* total, and moves the minimum and the maximum to its time where it is
\* beyond them; a failed decode changes none of the four.  getMetrics
\* reports total/count as the average, and 0 for the average and the
\* minimum when the count is 0.  After resetMetrics the four are as in a
\* fresh adapter, getMetrics reports what it reports for a fresh adapter,
\* and a second resetMetrics changes nothing.
C31_DecodeCounter ==
  [][LET time == lastOp'.code
         before == FlatBuffersAdapter_getMetrics(World)
         after == FlatBuffersAdapter_getMetrics(
                    [World EXCEPT !.totalDecoded = totalDecoded',
                                  !.totalDecodeTime = totalDecodeTime',
                                  !.minDecodeTime = minDecodeTime',
                                  !.maxDecodeTime = maxDecodeTime'])
     IN /\ lastOp'.op = "decode" =>
             /\ totalDecoded' = totalDecoded + 1
             /\ totalDecodeTime' = totalDecodeTime + time
             /\ after.minDecodeTime =
                  IF totalDecoded = 0 \/ time < before.minDecodeTime
                  THEN time ELSE before.minDecodeTime
             /\ after.maxDecodeTime =
                  IF time > before.maxDecodeTime
                  THEN time ELSE before.maxDecodeTime
             /\ after.averageDecodeTime.n = totalDecodeTime'
             /\ after.averageDecodeTime.d = totalDecoded'
        /\ lastOp'.op = "baddecode" =>
             UNCHANGED <<totalDecoded, totalDecodeTime, minDecodeTime,
                         maxDecodeTime>>
        /\ lastOp'.op = "reset" =>
             /\ after = FreshMetrics
             /\ totalDecoded' = 0
             /\ totalDecodeTime' = 0
             /\ minDecodeTime' = Infinity
             /\ maxDecodeTime' = 0
             /\ lastOp.op = "reset" =>
                  UNCHANGED <<totalDecoded, totalDecodeTime, minDecodeTime,
                              maxDecodeTime>>
        /\ totalDecoded = 0 => before = FreshMetrics]_vars

\* Three buffers were decoded in different times, and then one was
\* rejected.
C31_Witness ==
  /\ lastOp.op = "baddecode"
  /\ totalDecoded = 3
  /\ totalDecodeTime = 3
  /\ minDecodeTime = Finite(0)
  /\ maxDecodeTime = 2

(***************************************************************************)
(* The status and the current socket of the consumer manager.              *)
(***************************************************************************)
\* C32: the status is CONNECTED exactly when the manager holds a socket
\* and that socket is open.
C32_StatusMatchesSocket ==
  status = "CONNECTED" <=> isConnected(World)

\* C33: an open, error or close event of a socket that is not the one the
\* manager holds changes neither the status nor the back-off delay nor the
\* attempt counter, and arms no timer.
C33_StaleEventsIgnored ==
  [][(lastOp'.op \in {"open", "close", "fail"} /\ lastOp'.sock # ws) =>
       UNCHANGED <<status, currentReconnectDelay, reconnectAttempts,
                   reconnectTimeout, timers>>]_vars


\* C34: once disconnect() has returned, and until connect() is called
\* again, a frame that a socket delivers forwards no snapshot and records
\* no latency sample, message or byte.
C34_SilentAfterDisconnect ==
  [][(localDisconnect /\ lastOp'.op \in {"frame", "badframe"}) =>
       UNCHANGED <<allCryptos, latencySamples, messagesReceived,
                   bytesReceived>>]_vars


(***************************************************************************)
(* Properties of the latency aggregates.                                   *)
(***************************************************************************)
\* C35: the metrics of a manager that has recorded no sample report 0 for
\* p50, p95, p99, the average, the minimum and the maximum.
C35_EmptyWindowAllZero ==
  (metricsOut.calculated /\ metricsIn = <<>>) =>
    /\ metricsOut.latencyP50 = 0
    /\ metricsOut.latencyP95 = 0
    /\ metricsOut.latencyP99 = 0
    /\ metricsOut.averageLatency.n = 0
    /\ metricsOut.minLatency = 0
    /\ metricsOut.maxLatency = Finite(0)

\* C39: for a window that is not empty the reported maximum is a finite
\* number, minLatency <= latencyP50 <= latencyP95 <= latencyP99 <=
\* maxLatency, and minLatency <= averageLatency <= maxLatency, the average
\* being sum/count with a positive count.
C39_MetricsOrdered ==
  (metricsOut.calculated /\ metricsIn # <<>>) =>
    LET m == metricsOut
        avg == m.averageLatency
    IN /\ m.maxLatency.finite
       /\ m.minLatency <= m.latencyP50
       /\ m.latencyP50 <= m.latencyP95
       /\ m.latencyP95 <= m.latencyP99
       /\ m.latencyP99 <= m.maxLatency.value
       /\ avg.d > 0
       /\ m.minLatency * avg.d <= avg.n
       /\ avg.n <= m.maxLatency.value * avg.d

\* The metrics of a window of three samples that arrived out of order,
\* one of them negative.
C39_Witness ==
  /\ metricsOut.calculated
  /\ metricsIn = <<7, -1, 3>>
  /\ metricsOut.minLatency = -1
  /\ metricsOut.latencyP50 = 3
  /\ metricsOut.latencyP99 = 7
  /\ metricsOut.maxLatency = Finite(7)
  /\ metricsOut.averageLatency = Quotient(9, 3)


(***************************************************************************)
(* Properties of the back-off and of the reconnect timer.                  *)
(***************************************************************************)
\* The values the back-off delay takes, in milliseconds.
BackoffDelays == {2000, 4000, 8000, 16000, 30000}

\* C36: the back-off delay is always one of 2000, 4000, 8000, 16000 and
\* 30000 ms; a step changes it only to the smaller of its double and the
\* cap, in a step that ran scheduleReconnect, or to the base, when a socket
\* opened.
C36_BackoffLadder ==
  [][
     /\ currentReconnectDelay \in BackoffDelays
     /\ currentReconnectDelay' \in BackoffDelays
     /\ currentReconnectDelay' # currentReconnectDelay =>
          \/ /\ lastOp'.op = "open"
             /\ currentReconnectDelay' = reconnectDelay
          \/ /\ reconnectAttempts' = reconnectAttempts + 1
             /\ currentReconnectDelay' =
                  Min(2 * currentReconnectDelay, maxReconnectDelay)
    ]_vars

\* The fifth attempt in a row failed: the delay went up the ladder to the
\* cap and stayed there.
C36_Witness ==
  /\ currentReconnectDelay = maxReconnectDelay
  /\ reconnectAttempts = 5
  /\ lastOp.op = "fail"

\* C40: at most one reconnect timer is pending, and it is the one whose
\* handle the manager holds.
C40_OneReconnectTimer ==
  /\ Cardinality(timers) <= 1
  /\ \A t \in timers : reconnectTimeout = t.id

\* The application connected twice, and both sockets failed, the second
\* while the timer of the first failure was still pending: one timer is
\* pending after two schedulings, and none has fired.
C40_Witness ==
  /\ lastOp.op = "fail"
  /\ reconnectAttempts = 2
  /\ connectCalls = 2
  /\ userCalls = 2
  /\ Cardinality(timers) = 1
  /\ nextTimer > 2


(***************************************************************************)
(* Properties of the stream timers and of the responses of the producer.   *)
(***************************************************************************)
\* C37, as stated: a connection has a live stream timer exactly when it is
\* registered and its socket is open.
C37_TimerIffRegisteredOpen ==
  \A c \in Accepted :
    TimersOf(c) # {} <=> (c \in clients /\ conns[c] = "open")

\* C37, amended: a stream timer exists only for a registered connection;
\* a registered connection whose socket is open has exactly one, the one
\* recorded for it, also after a change of cadence; a connection whose
\* close or error event was handled is not registered and has none; and
\* handling the disconnect a second time changes nothing.  A timer may
\* outlive the open state of its socket until the close event is handled
\* or the timer fires.
C37_TimerOnlyWhileRegistered ==
  \A c \in Accepted :
    /\ TimersOf(c) # {} => c \in clients
    /\ (c \in clients /\ conns[c] = "open") =>
         /\ Cardinality(TimersOf(c)) = 1
         /\ \A i \in TimersOf(c) : updateIntervals[c] = i.id
    /\ conns[c] = "closed" =>
         /\ c \notin clients
         /\ TimersOf(c) = {}
         /\ updateIntervals[c] = NULL
    /\ handleDisconnect(handleDisconnect(Server, c), c) =
         handleDisconnect(Server, c)

\* The cadence of a connection was changed, and then its socket stopped
\* being open: the timer of the new cadence is still live.
C37_Witness ==
  /\ Len(conns) = 1
  /\ conns[1] = "closing"
  /\ 1 \in clients
  /\ client[1].frequency = 20
  /\ \E i \in TimersOf(1) : i.period = intervalMs(20) /\ i.id = updateIntervals[1]

\* C38: on every connection the number of responses sent is at most the
\* number of messages received; `received` counts the messages of every
\* kind received on any connection, which is no less than the commands
\* received on that one.
C38_ResponsesFollowCommands ==
  \A c \in Accepted : wire[c].responses <= received

====
